---- MODULE Spec2Model ----
(***************************************************************************)
(* Model of src/main.py: the Slack event webhook of pptwiz.                *)
(*                                                                         *)
(* Every webhook delivery runs the coroutine slack_events on one asyncio   *)
(* event loop.  The loop is single threaded, so the code between two       *)
(* awaits that really suspend is one atomic step; the steps of different   *)
(* deliveries interleave at those awaits.  One action below is one such    *)
(* step.  Strings are sequences of one-character strings, so that          *)
(* concatenation, lower() and strip() are computed and not assumed.        *)
(***************************************************************************)
EXTENDS Integers, Sequences, FiniteSets, TLC

\* ------------------------------------------------------------- bounds
\* Number of webhook deliveries of a run (handler h is the h-th to arrive).
NumHandlers == 2
\* Status polls counted per job; the counters stop counting there, the loop
\* itself is not bounded.
MaxPolls == 2
\* Last instant of the clock read by is_duplicate.
MaxNow == 301

\* ------------------------------------------------------------- constants
DedupWindow == 300
PollInterval == 4
ExtractLimit == 4000

None == "None"
Handlers == 1..NumHandlers
NoSession == 0
NoTime == -1

\* ------------------------------------------------------------- strings
UpperCase == <<"A","B","C","D","E","F","G","H","I","J","K","L","M",
               "N","O","P","Q","R","S","T","U","V","W","X","Y","Z">>
LowerCase == <<"a","b","c","d","e","f","g","h","i","j","k","l","m",
               "n","o","p","q","r","s","t","u","v","w","x","y","z">>
WhiteSpace == {" ", "\n", "\t"}

LowerChar(c) ==
    IF \E i \in 1..Len(UpperCase) : UpperCase[i] = c
    THEN LowerCase[CHOOSE i \in 1..Len(UpperCase) : UpperCase[i] = c]
    ELSE c

\* str.lower()
Lower(s) == [i \in 1..Len(s) |-> LowerChar(s[i])]

\* str.strip()
Strip(s) ==
    LET keep == {i \in 1..Len(s) : s[i] \notin WhiteSpace}
    IN  IF keep = {} THEN <<>>
        ELSE LET lo == CHOOSE i \in keep : \A j \in keep : i <= j
                 hi == CHOOSE i \in keep : \A j \in keep : j <= i
             IN  SubSeq(s, lo, hi)

\* s[:n]
Truncate(s, n) == IF Len(s) <= n THEN s ELSE SubSeq(s, 1, n)

\* the literals of the program
SPACE == <<" ">>
NEWLINE == <<"\n">>
Triggers == { <<"g","e","r","a">>, <<"p","r","o","n","t","o">> }
ErrorText == "Erro ao gerar PPT."

\* a or b
PyOr(a, b) == IF a # None /\ a # "" THEN a ELSE b

\* ------------------------------------------------------------- inputs
\* the suffixes of the downloaded files: one that extract reads without
\* suspending, and .txt
FileKinds == {"pdf", "txt"}
Locators == {"u1", "u2"}

\* what the file behind a reference holds
Content(f) == IF f = "f1" THEN <<"x">> ELSE <<"y">>

\* Who sent the message and where.  A message that has a client_msg_id has a
\* ts; a message without either is the event with no identifier.
Identities ==
  { i \in [ client_msg_id : {None, "m1"},
            ts : {None, "t1"},
            thread_ts : {None},
            channel_type : {"im", "channel"},
            user : {"U1"} ] : i.client_msg_id = None \/ i.ts # None }

\* What the message says and carries: two plain texts, a trigger word in
\* another case and with a blank, a file without and with a text, two files.
Contents ==
  { [text |-> <<"q">>, files |-> <<>>],
    [text |-> <<"b">>, files |-> <<>>],
    [text |-> <<"G","e","r","a"," ">>, files |-> <<>>],
    [text |-> <<>>, files |-> <<"f1">>],
    [text |-> <<"G","e","r","a"," ">>, files |-> <<"f1">>],
    [text |-> <<"b">>, files |-> <<"f2","f1">>] }

Event(i, c, bot) ==
    [ bot |-> bot, client_msg_id |-> i.client_msg_id, ts |-> i.ts,
      thread_ts |-> i.thread_ts, channel_type |-> i.channel_type,
      user |-> i.user, text |-> c.text, files |-> c.files ]

UserEvents == { Event(i, c, FALSE) : i \in Identities, c \in Contents }
BotEvent ==
    Event([client_msg_id |-> None, ts |-> "t1", thread_ts |-> None,
           channel_type |-> "channel", user |-> "U1"],
          [text |-> <<"q">>, files |-> <<>>], TRUE)
Events == UserEvents \cup {BotEvent}
NoEvent == BotEvent

Keys == {"U1", "t1"}
Cids == {None, "m1", "t1"}

VARIABLES
    now,         \* datetime.utcnow().timestamp(), in seconds
    dedup,       \* dedup: identifier -> first-seen time (NoTime: not a key)
    sessions,    \* sessions: key -> the session dict (NoSession: not a key)
    heap,        \* the session dicts; dict h is the one handler h created
    asked_flag,  \* asked_flag: key -> True (FALSE: not a key)
    pc,          \* where each handler is suspended
    ev,          \* handler local ev
    cid,         \* handler local cid
    key,         \* handler local key
    sess,        \* handler local sess: a reference into heap
    loaded,      \* sess["texto"] as loaded by += before the await of extract
    d,           \* slide_url local d: the last status response
    url,         \* handler local url
    polls,       \* non-terminal status responses slide_url got (up to MaxPolls)
    slept,       \* seconds slide_url spent in asyncio.sleep (up to as many)
    outcome,     \* by which exit the handler left its try block
    sent,        \* history: the chat.postMessage calls that succeeded
    submitted,   \* history: the arguments of the gerar_roteiro call
    extracted,   \* history: the texts extract returned to the handler
    result,      \* history: how the handler ended
    at           \* history: the clock when is_duplicate recorded the delivery

vars == << now, dedup, sessions, heap, asked_flag, pc, ev, cid, key, sess,
           loaded, d, url, polls, slept, outcome, sent, submitted, extracted,
           result, at >>

globals == << now, dedup, sessions, heap, asked_flag >>
locals == << ev, cid, key, sess >>
reading == << loaded, extracted >>
poller == << d, url, polls, slept, outcome >>

EmptySession == [pedido |-> <<>>, texto |-> <<>>]
NoStatus == [task_status |-> "NONE", url |-> None]
Nothing == [texto |-> <<>>, pedido |-> <<>>, called |-> FALSE]

Init ==
    /\ now = 0
    /\ dedup = [c \in Cids |-> NoTime]
    /\ sessions = [k \in Keys |-> NoSession]
    /\ heap = [o \in Handlers |-> EmptySession]
    /\ asked_flag = [k \in Keys |-> FALSE]
    /\ pc = [h \in Handlers |-> "idle"]
    /\ ev = [h \in Handlers |-> NoEvent]
    /\ cid = [h \in Handlers |-> None]
    /\ key = [h \in Handlers |-> None]
    /\ sess = [h \in Handlers |-> NoSession]
    /\ loaded = [h \in Handlers |-> <<>>]
    /\ d = [h \in Handlers |-> NoStatus]
    /\ url = [h \in Handlers |-> None]
    /\ polls = [h \in Handlers |-> 0]
    /\ slept = [h \in Handlers |-> 0]
    /\ outcome = [h \in Handlers |-> "none"]
    /\ sent = [h \in Handlers |-> <<>>]
    /\ submitted = [h \in Handlers |-> Nothing]
    /\ extracted = [h \in Handlers |-> <<>>]
    /\ result = [h \in Handlers |-> "none"]
    /\ at = [h \in Handlers |-> NoTime]

\* ------------------------------------------------------------- helpers
\* sess_key(ev); "KeyError" where ev["ts"] raises
sess_key(e) ==
    IF e.channel_type = "im" THEN e.user
    ELSE IF PyOr(e.thread_ts, e.ts) # None THEN PyOr(e.thread_ts, e.ts)
    ELSE "KeyError"

\* the purge loop with a window that ends one second early
PurgedEarly(dd, t) == [c \in Cids |-> IF dd[c] # NoTime /\ t - dd[c] >= DedupWindow
                                      THEN NoTime ELSE dd[c]]

\* the purge loop of is_duplicate
Purged(dd, t) == [c \in Cids |-> IF dd[c] # NoTime /\ t - dd[c] > DedupWindow
                                 THEN NoTime ELSE dd[c]]

\* a lookup that renews the first-seen time of an identifier it finds
is_duplicate_refreshing(c, dd, t) ==
    LET p == Purged(dd, t)
    IN  IF p[c] # NoTime
        THEN [dup |-> TRUE, dedup |-> [p EXCEPT ![c] = t]]
        ELSE [dup |-> FALSE, dedup |-> [p EXCEPT ![c] = t]]

\* is_duplicate(cid): the value returned and the dedup it leaves
is_duplicate(c, dd, t) ==
    LET p == Purged(dd, t)
    IN  IF p[c] # NoTime
        THEN [dup |-> TRUE, dedup |-> p]
        ELSE [dup |-> FALSE, dedup |-> [p EXCEPT ![c] = t]]

\* msg_low in {"gera", "pronto"}
IsTrigger(text) == Strip(Lower(text)) \in Triggers

\* sess["pedido"] = " " + txt
AssignPedido(s, txt) == [s EXCEPT !.pedido = SPACE \o txt]

\* sess["pedido"] += " " + txt
AppendPedido(s, txt) == [s EXCEPT !.pedido = s.pedido \o SPACE \o txt]

\* sess["texto"] += "\n" + <extracted>, with sess["texto"] loaded beforehand
StoreTexto(s, old, text) == [s EXCEPT !.texto = old \o NEWLINE \o text]

\* extract(path) for a file of the given kind
extract(kind, f) ==
    IF kind \in {"pdf", "txt"} THEN Truncate(Content(f), ExtractLimit)
    ELSE <<>>

\* Lines 138-153: where the handler goes once pedido and texto are collected.
\* The prompt's thread_ts is ev.get("thread_ts") or ev["ts"], which raises
\* KeyError when the event has neither.
AfterCollect(e, k, asked) ==
    IF ~IsTrigger(e.text) /\ ~asked[k]
    THEN IF PyOr(e.thread_ts, e.ts) = None THEN "failed" ELSE "prompt_post"
    ELSE IF IsTrigger(e.text) THEN "working_post"
    ELSE "done"

ResultOf(p, old) == IF p = "failed" THEN "error"
                    ELSE IF p = "done" THEN "silent"
                    ELSE old

\* deliveries are numbered in the order in which they are handled
Arrived(h) == IF h = 1 THEN TRUE ELSE pc[h - 1] # "idle"

Suspended(h) == pc[h] \notin {"idle", "done", "failed"}

Message(kind, k, u) == [kind |-> kind, to |-> k, url |-> u]

Count(n) == IF n < MaxPolls THEN n + 1 ELSE MaxPolls

\* ------------------------------------------------------------- actions
\* The clock is read by is_duplicate only: it moves while a delivery is to come.
Tick ==
    /\ pc[NumHandlers] = "idle"
    /\ \E dt \in {DedupWindow, DedupWindow + 1} :
          /\ now + dt <= MaxNow
          /\ now' = now + dt
    /\ UNCHANGED << dedup, sessions, heap, asked_flag, pc, locals, reading,
                    poller, sent, submitted, result, at >>

\* Lines 109-113: a url_verification payload is answered with its challenge.
Verify(h) ==
    /\ pc[h] = "idle"
    /\ Arrived(h)
    /\ pc' = [pc EXCEPT ![h] = "done"]
    /\ result' = [result EXCEPT ![h] = "challenge"]
    /\ UNCHANGED << globals, locals, reading, poller, sent, submitted, at >>

\* a handler that looks the identifier up in dedup before it tests bot_id
ReceiveDedupFirst(h) ==
    /\ pc[h] = "idle"
    /\ Arrived(h)
    /\ \E e \in Events :
        LET c == PyOr(e.client_msg_id, e.ts)
            dd == is_duplicate(c, dedup, now)
            k == sess_key(e)
            o == IF sessions[k] = NoSession THEN h ELSE sessions[k]
            nxt == IF e.files # <<>> THEN "download"
                   ELSE AfterCollect(e, k, asked_flag)
        IN  /\ ev' = [ev EXCEPT ![h] = e]
            /\ IF e.bot
               THEN /\ pc' = [pc EXCEPT ![h] = "done"]
                    /\ result' = [result EXCEPT ![h] = "bot"]
                    /\ dedup' = dd.dedup
                    /\ UNCHANGED << sessions, heap, cid, key, sess, at >>
               ELSE /\ cid' = [cid EXCEPT ![h] = c]
                    /\ dedup' = dd.dedup
                    /\ IF dd.dup
                       THEN /\ pc' = [pc EXCEPT ![h] = "done"]
                            /\ result' = [result EXCEPT ![h] = "dup"]
                            /\ UNCHANGED << sessions, heap, key, sess, at >>
                       ELSE /\ at' = [at EXCEPT ![h] = now]
                            /\ IF k = "KeyError"
                               THEN /\ pc' = [pc EXCEPT ![h] = "failed"]
                                    /\ result' = [result EXCEPT ![h] = "error"]
                                    /\ UNCHANGED << sessions, heap, key, sess >>
                               ELSE /\ key' = [key EXCEPT ![h] = k]
                                    /\ sessions' = [sessions EXCEPT ![k] = o]
                                    /\ sess' = [sess EXCEPT ![h] = o]
                                    /\ heap' = IF e.text # <<>>
                                               THEN [heap EXCEPT ![o] = AppendPedido(heap[o], e.text)]
                                               ELSE heap
                                    /\ pc' = [pc EXCEPT ![h] = nxt]
                                    /\ result' = [result EXCEPT ![h] = ResultOf(nxt, "processing")]
    /\ UNCHANGED << now, asked_flag, reading, poller, sent, submitted >>

\* Lines 109-139 up to the first await that suspends.
Receive(h) ==
    /\ pc[h] = "idle"
    /\ Arrived(h)
    /\ \E e \in Events :
        LET c == PyOr(e.client_msg_id, e.ts)
            dd == is_duplicate(c, dedup, now)
            k == sess_key(e)
            o == IF sessions[k] = NoSession THEN h ELSE sessions[k]
            nxt == IF e.files # <<>> THEN "download"
                   ELSE AfterCollect(e, k, asked_flag)
        IN  /\ ev' = [ev EXCEPT ![h] = e]
            /\ IF e.bot
               THEN /\ pc' = [pc EXCEPT ![h] = "done"]
                    /\ result' = [result EXCEPT ![h] = "bot"]
                    /\ UNCHANGED << dedup, sessions, heap, cid, key, sess, at >>
               ELSE /\ cid' = [cid EXCEPT ![h] = c]
                    /\ dedup' = dd.dedup
                    /\ IF dd.dup
                       THEN /\ pc' = [pc EXCEPT ![h] = "done"]
                            /\ result' = [result EXCEPT ![h] = "dup"]
                            /\ UNCHANGED << sessions, heap, key, sess, at >>
                       ELSE /\ at' = [at EXCEPT ![h] = now]
                            /\ IF k = "KeyError"
                               THEN /\ pc' = [pc EXCEPT ![h] = "failed"]
                                    /\ result' = [result EXCEPT ![h] = "error"]
                                    /\ UNCHANGED << sessions, heap, key, sess >>
                               ELSE /\ key' = [key EXCEPT ![h] = k]
                                    /\ sessions' = [sessions EXCEPT ![k] = o]
                                    /\ sess' = [sess EXCEPT ![h] = o]
                                    /\ heap' = IF e.text # <<>>
                                               THEN [heap EXCEPT ![o] = AppendPedido(heap[o], e.text)]
                                               ELSE heap
                                    /\ pc' = [pc EXCEPT ![h] = nxt]
                                    /\ result' = [result EXCEPT ![h] = ResultOf(nxt, "processing")]
    /\ UNCHANGED << now, asked_flag, reading, poller, sent, submitted >>

\* Lines 133-136: download_slack returns.  It raises on a network error,
\* returns None on a status other than 200, and else a path whose suffix comes
\* from the Content-Type.  extract suspends only for a .txt file (aiofiles);
\* for the others it runs to its end, or raises, in the same step.  In
\* sess["texto"] += "\n" + await extract(ftmp) the left side is loaded before
\* the await and stored after it.
DownloadDone(h) ==
    /\ pc[h] = "download"
    /\ \E out \in {"raise", "none", "extract_raise"} \cup FileKinds :
        LET o == sess[h]
            f == ev[h].files[1]
            nxt == AfterCollect(ev[h], key[h], asked_flag)
        IN  \/ /\ out \in {"raise", "extract_raise"}
               /\ pc' = [pc EXCEPT ![h] = "failed"]
               /\ result' = [result EXCEPT ![h] = "error"]
               /\ UNCHANGED << heap, reading >>
            \/ /\ out = "none"
               /\ pc' = [pc EXCEPT ![h] = nxt]
               /\ result' = [result EXCEPT ![h] = ResultOf(nxt, result[h])]
               /\ UNCHANGED << heap, reading >>
            \/ /\ out \in FileKinds \ {"txt"}
               /\ heap' = [heap EXCEPT ![o] =
                              StoreTexto(heap[o], heap[o].texto, extract(out, f))]
               /\ extracted' = [extracted EXCEPT ![h] = Append(@, extract(out, f))]
               /\ pc' = [pc EXCEPT ![h] = nxt]
               /\ result' = [result EXCEPT ![h] = ResultOf(nxt, result[h])]
               /\ UNCHANGED loaded
            \/ /\ out = "txt"
               /\ loaded' = [loaded EXCEPT ![h] = heap[o].texto]
               /\ pc' = [pc EXCEPT ![h] = "extract"]
               /\ UNCHANGED << heap, result, extracted >>
    /\ UNCHANGED << now, dedup, sessions, asked_flag, locals, poller, sent,
                    submitted, at >>

\* Lines 53-54, 135-136: the read of the .txt file returns, or raises; the
\* loaded value is used by the store and gone afterwards.
ExtractDone(h) ==
    /\ pc[h] = "extract"
    /\ \E ok \in BOOLEAN :
        LET o == sess[h]
            text == extract("txt", ev[h].files[1])
            nxt == AfterCollect(ev[h], key[h], asked_flag)
        IN  IF ok
            THEN /\ heap' = [heap EXCEPT ![o] = StoreTexto(heap[o], loaded[h], text)]
                 /\ extracted' = [extracted EXCEPT ![h] = Append(@, text)]
                 /\ pc' = [pc EXCEPT ![h] = nxt]
                 /\ result' = [result EXCEPT ![h] = ResultOf(nxt, result[h])]
            ELSE /\ pc' = [pc EXCEPT ![h] = "failed"]
                 /\ result' = [result EXCEPT ![h] = "error"]
                 /\ UNCHANGED << heap, extracted >>
    /\ loaded' = [loaded EXCEPT ![h] = <<>>]
    /\ UNCHANGED << now, dedup, sessions, asked_flag, locals, poller, sent,
                    submitted, at >>

\* Lines 144-150: the chat.postMessage of the prompt returns, or raises.
PromptPost(h) ==
    /\ pc[h] = "prompt_post"
    /\ \E ok \in BOOLEAN :
        IF ok
        THEN /\ sent' = [sent EXCEPT ![h] = Append(@, Message("prompt", key[h], None))]
             /\ asked_flag' = [asked_flag EXCEPT ![key[h]] = TRUE]
             /\ pc' = [pc EXCEPT ![h] = "done"]
             /\ result' = [result EXCEPT ![h] = "prompted"]
        ELSE /\ pc' = [pc EXCEPT ![h] = "failed"]
             /\ result' = [result EXCEPT ![h] = "error"]
             /\ UNCHANGED << sent, asked_flag >>
    /\ UNCHANGED << now, dedup, sessions, heap, locals, reading, poller,
                    submitted, at >>

\* Lines 154-160: the chat.postMessage of the progress message returns, or
\* raises; gerar_roteiro is then called with the session's fields.
WorkingPost(h) ==
    /\ pc[h] = "working_post"
    /\ \E ok \in BOOLEAN :
        IF ok
        THEN /\ sent' = [sent EXCEPT ![h] = Append(@, Message("working", key[h], None))]
             /\ submitted' = [submitted EXCEPT ![h] =
                    [texto |-> heap[sess[h]].texto, pedido |-> heap[sess[h]].pedido,
                     called |-> TRUE]]
             /\ pc' = [pc EXCEPT ![h] = "roteiro"]
             /\ UNCHANGED result
        ELSE /\ pc' = [pc EXCEPT ![h] = "failed"]
             /\ result' = [result EXCEPT ![h] = "error"]
             /\ UNCHANGED << sent, submitted >>
    /\ UNCHANGED << globals, locals, reading, poller, at >>

\* Lines 160-164: gerar_roteiro returns and slide_url posts the job, or it
\* raises and the except clause sets url.
Roteiro(h) ==
    /\ pc[h] = "roteiro"
    /\ \E ok \in BOOLEAN :
        IF ok
        THEN /\ pc' = [pc EXCEPT ![h] = "submit"]
             /\ UNCHANGED << url, outcome >>
        ELSE /\ url' = [url EXCEPT ![h] = ErrorText]
             /\ outcome' = [outcome EXCEPT ![h] = "roteiro_error"]
             /\ pc' = [pc EXCEPT ![h] = "final_post"]
    /\ UNCHANGED << globals, locals, reading, d, polls, slept, sent, submitted,
                    result, at >>

\* Lines 72-76, 162-164: the generate request returns a task_id and the first
\* status request is sent; without a task_id r.json()["task_id"] raises, as
\* the request itself may, and the except clause sets url.
Submit(h) ==
    /\ pc[h] = "submit"
    /\ \E ok \in BOOLEAN :
        IF ok
        THEN /\ pc' = [pc EXCEPT ![h] = "poll"]
             /\ UNCHANGED << url, outcome >>
        ELSE /\ url' = [url EXCEPT ![h] = ErrorText]
             /\ outcome' = [outcome EXCEPT ![h] = "submission_error"]
             /\ pc' = [pc EXCEPT ![h] = "final_post"]
    /\ UNCHANGED << globals, locals, reading, d, polls, slept, sent, submitted,
                    result, at >>

\* what the status endpoint may answer
StatusResponses ==
    [task_status : {"SUCCESS"}, url : Locators]
        \cup [task_status : {"FAILED", "PENDING"}, url : {None}]

\* Lines 78-83: what slide_url does with a status response: the value it
\* returns, or None when it goes on to sleep.
slide_url(r) ==
    IF r.task_status = "SUCCESS" THEN r.url
    ELSE IF r.task_status = "FAILED" THEN ErrorText
    ELSE None

\* Lines 162-164: what becomes of an exception raised by the status request:
\* it leaves slide_url and the except clause of the handler sets url.
PollRaised(h) ==
    /\ url' = [url EXCEPT ![h] = ErrorText]
    /\ outcome' = [outcome EXCEPT ![h] = "poll_error"]
    /\ pc' = [pc EXCEPT ![h] = "final_post"]
    /\ UNCHANGED << d, polls, slept >>

\* Lines 76-83, 162-164: a status request returns, or raises.
Poll(h) ==
    /\ pc[h] = "poll"
    /\ \/ \E r \in StatusResponses :
            /\ d' = [d EXCEPT ![h] = r]
            /\ IF slide_url(r) # None
               THEN /\ url' = [url EXCEPT ![h] = slide_url(r)]
                    /\ outcome' = [outcome EXCEPT ![h] =
                          IF r.task_status = "SUCCESS" THEN "success" ELSE "generation_failed"]
                    /\ pc' = [pc EXCEPT ![h] = "final_post"]
                    /\ UNCHANGED << polls, slept >>
               ELSE /\ pc' = [pc EXCEPT ![h] = "sleep"]
                    /\ polls' = [polls EXCEPT ![h] = Count(@)]
                    /\ UNCHANGED << url, slept, outcome >>
       \/ PollRaised(h)
    /\ UNCHANGED << globals, locals, reading, sent, submitted, result, at >>

\* a loop that goes round without sleeping
SleepSkipped(h) ==
    /\ pc[h] = "sleep"
    /\ pc' = [pc EXCEPT ![h] = "poll"]
    /\ UNCHANGED << globals, locals, reading, d, url, polls, slept, outcome, sent,
                    submitted, result, at >>

\* Line 83: asyncio.sleep(4) returns and the next status request is sent.
Sleep(h) ==
    /\ pc[h] = "sleep"
    /\ slept' = [slept EXCEPT ![h] =
                    IF @ < MaxPolls * PollInterval THEN @ + PollInterval ELSE @]
    /\ pc' = [pc EXCEPT ![h] = "poll"]
    /\ UNCHANGED << globals, locals, reading, d, url, polls, outcome, sent,
                    submitted, result, at >>

\* a cleanup that runs before the result message is posted: the session and
\* the flag are removed whether the post returns or raises
FinalPostAfterCleanup(h) ==
    /\ pc[h] = "final_post"
    /\ \E ok \in BOOLEAN :
        IF ok
        THEN /\ sent' = [sent EXCEPT ![h] = Append(@, Message("result", key[h], url[h]))]
             /\ pc' = [pc EXCEPT ![h] = "done"]
             /\ result' = [result EXCEPT ![h] = "dispatched"]
        ELSE /\ pc' = [pc EXCEPT ![h] = "failed"]
             /\ result' = [result EXCEPT ![h] = "error"]
             /\ UNCHANGED sent
    /\ sessions' = [sessions EXCEPT ![key[h]] = NoSession]
    /\ asked_flag' = [asked_flag EXCEPT ![key[h]] = FALSE]
    /\ d' = [d EXCEPT ![h] = NoStatus]
    /\ url' = [url EXCEPT ![h] = None]
    /\ outcome' = [outcome EXCEPT ![h] = "none"]
    /\ polls' = [polls EXCEPT ![h] = 0]
    /\ slept' = [slept EXCEPT ![h] = 0]
    /\ UNCHANGED << now, dedup, heap, locals, reading, submitted, at >>

\* Lines 166-176: the chat.postMessage of the result returns and the session
\* and the flag of the key are removed; or it raises.  Either way the
\* coroutine ends and the locals of the generation are gone.
FinalPost(h) ==
    /\ pc[h] = "final_post"
    /\ \E ok \in BOOLEAN :
        IF ok
        THEN /\ sent' = [sent EXCEPT ![h] = Append(@, Message("result", key[h], url[h]))]
             /\ sessions' = [sessions EXCEPT ![key[h]] = NoSession]
             /\ asked_flag' = [asked_flag EXCEPT ![key[h]] = FALSE]
             /\ pc' = [pc EXCEPT ![h] = "done"]
             /\ result' = [result EXCEPT ![h] = "dispatched"]
        ELSE /\ pc' = [pc EXCEPT ![h] = "failed"]
             /\ result' = [result EXCEPT ![h] = "error"]
             /\ UNCHANGED << sent, sessions, asked_flag >>
    /\ d' = [d EXCEPT ![h] = NoStatus]
    /\ url' = [url EXCEPT ![h] = None]
    /\ outcome' = [outcome EXCEPT ![h] = "none"]
    /\ polls' = [polls EXCEPT ![h] = 0]
    /\ slept' = [slept EXCEPT ![h] = 0]
    /\ UNCHANGED << now, dedup, heap, locals, reading, submitted, at >>

Step(h) ==
    \/ DownloadDone(h)
    \/ ExtractDone(h)
    \/ PromptPost(h)
    \/ WorkingPost(h)
    \/ Roteiro(h)
    \/ Submit(h)
    \/ Poll(h)
    \/ Sleep(h)
    \/ FinalPost(h)

Next ==
    \/ Tick
    \/ \E h \in Handlers : Verify(h)
    \/ \E h \in Handlers : Receive(h)
    \/ \E h \in Handlers : DownloadDone(h)
    \/ \E h \in Handlers : ExtractDone(h)
    \/ \E h \in Handlers : PromptPost(h)
    \/ \E h \in Handlers : WorkingPost(h)
    \/ \E h \in Handlers : Roteiro(h)
    \/ \E h \in Handlers : Submit(h)
    \/ \E h \in Handlers : Poll(h)
    \/ \E h \in Handlers : Sleep(h)
    \/ \E h \in Handlers : FinalPost(h)

Spec == Init /\ [][Next]_vars

\* Deliveries handled one after another: none arrives while a handler is
\* suspended.
Quiet == \A g \in Handlers : ~Suspended(g)

SeqNext ==
    \/ Tick
    \/ \E h \in Handlers : Quiet /\ Verify(h)
    \/ \E h \in Handlers : Quiet /\ Receive(h)
    \/ \E h \in Handlers : DownloadDone(h)
    \/ \E h \in Handlers : ExtractDone(h)
    \/ \E h \in Handlers : PromptPost(h)
    \/ \E h \in Handlers : WorkingPost(h)
    \/ \E h \in Handlers : Roteiro(h)
    \/ \E h \in Handlers : Submit(h)
    \/ \E h \in Handlers : Poll(h)
    \/ \E h \in Handlers : Sleep(h)
    \/ \E h \in Handlers : FinalPost(h)

SeqSpec == Init /\ [][SeqNext]_vars

\* The event loop runs every coroutine whose await has completed, and every
\* request of the handler completes or raises (httpx times out after 60 s).
FairSpec == Spec /\ \A h \in Handlers : WF_vars(Step(h))
FairSeqSpec == SeqSpec /\ \A h \in Handlers : WF_vars(Step(h))

\* ------------------------------------------------------------- properties
\* handler h is taking its first step, as the handler of an event
Handles(h) == pc[h] = "idle" /\ pc'[h] # "idle" /\ result'[h] # "challenge"

\* a delivery recorded by is_duplicate, with the identifier c, not more than
\* DedupWindow seconds ago
RecordedInWindow(c) ==
    \E g \in Handlers : at[g] # NoTime /\ cid[g] = c /\ now - at[g] <= DedupWindow

\* C1: of the deliveries that carry one identifier and are handled within 300 s
\* of the first, under any interleaving of the handlers, the first is processed
\* and every later one is ignored: it leaves sessions, the session dicts and
\* asked_flag as they are and sends no message.
C1_OnlyFirstProcessed ==
    [][\A h \in Handlers :
          (Handles(h) /\ ~ev'[h].bot) =>
             IF RecordedInWindow(cid'[h])
             THEN /\ result'[h] = "dup"
                  /\ pc'[h] = "done"
                  /\ UNCHANGED << sessions, heap, asked_flag, sent >>
             ELSE result'[h] # "dup" /\ at'[h] = now]_vars

\* a second delivery of an identifier was ignored exactly 300 s after the
\* first, whose handler is still waiting for its prompt to be posted
C1_Witness ==
    \E g, h \in Handlers :
        /\ result[h] = "dup"
        /\ cid[g] = cid[h]
        /\ at[g] = 0
        /\ now = DedupWindow
        /\ pc[g] = "prompt_post"

\* C2: for every event classified as a trigger that passed the bot and dedup
\* checks, the session of its key is eventually gone, whatever becomes of the
\* job (success, failure, rejected submission, no terminal status ever).  A
\* handler that a failed chat.postMessage has ended is not a case of this
\* claim and is left out.
C2_SessionEventuallyGone ==
    \A h \in Handlers : \A k \in Keys :
        (pc[h] = "working_post" /\ key[h] = k)
            ~> (sessions[k] = NoSession \/ pc[h] = "failed")

\* the texts of the first n deliveries that reached the session of key k, each
\* behind a blank, in the order of arrival
RECURSIVE RequestOf(_, _)
RequestOf(k, n) ==
    IF n = 0 THEN <<>>
    ELSE RequestOf(k, n - 1) \o
         (IF key[n] = k /\ ev[n].text # <<>> THEN SPACE \o ev[n].text ELSE <<>>)

\* the texts of a sequence of texts, each behind a newline
RECURSIVE Lines(_)
Lines(ts) == IF ts = <<>> THEN <<>> ELSE NEWLINE \o Head(ts) \o Lines(Tail(ts))

\* the texts extract returned to the first n deliveries that reached the
\* session of key k, each behind a newline, in the order of arrival
RECURSIVE BodyOf(_, _)
BodyOf(k, n) ==
    IF n = 0 THEN <<>>
    ELSE BodyOf(k, n - 1) \o (IF key[n] = k THEN Lines(extracted[n]) ELSE <<>>)

OnlyContinue(k) == \A h \in Handlers : key[h] = k => ~IsTrigger(ev[h].text)

\* C3: when the events of a key are handled one after another and none is a
\* trigger, the session's pedido is the texts of the events in the order of
\* arrival, each behind the delimiter, and its texto is the texts extracted from
\* their files in the order of arrival, each behind the delimiter.
C3_OrderedConcatenation ==
    \A k \in Keys :
        (sessions[k] # NoSession /\ OnlyContinue(k)) =>
            /\ heap[sessions[k]].pedido = RequestOf(k, NumHandlers)
            /\ heap[sessions[k]].texto = BodyOf(k, NumHandlers)

\* two events of one key were handled one after the other: "q", then "b" with
\* a file
C3_Witness ==
    \E k \in Keys :
        /\ sessions[k] # NoSession
        /\ OnlyContinue(k)
        /\ \A h \in Handlers : key[h] = k /\ pc[h] = "done"
        /\ heap[sessions[k]].pedido = <<" ", "q", " ", "b">>
        /\ heap[sessions[k]].texto = <<"\n", "y">>

Prompted(h) == \E i \in DOMAIN sent[h] : sent[h][i].kind = "prompt"

\* C4: between the creation of a session and its clearing the prompt is sent
\* at most once, for any number of events that are not triggers and any
\* interleaving of their handlers: of the handlers that worked on one session
\* dict at most one has posted the prompt.
C4_PromptAtMostOnce ==
    \A o \in Handlers : Cardinality({h \in Handlers : sess[h] = o /\ Prompted(h)}) <= 1

Polling(h) == pc[h] \in {"poll", "sleep"}

\* C5: when the service answers every status request with a status that is
\* not terminal, the poller still ends: once the wall-clock ceiling has passed
\* it stops polling and fails with a timeout that is reported.
C5_PollerTerminates ==
    \A h \in Handlers : (pc[h] = "poll") ~> ~Polling(h)

\* C6: when the first N status requests are answered with a status that is not
\* terminal and the next with SUCCESS, slide_url returns the url of that
\* response, after N + 1 requests with N sleeps of PollInterval seconds between
\* them, and it holds no locator before a response said SUCCESS.
C6_LocatorAfterSuccess ==
    \A h \in Handlers :
        /\ url[h] \in Locators =>
              /\ pc[h] = "final_post"
              /\ outcome[h] = "success"
              /\ d[h].task_status = "SUCCESS"
              /\ url[h] = d[h].url
              /\ polls[h] < MaxPolls => slept[h] = polls[h] * PollInterval
        /\ pc[h] = "poll" => slept[h] = polls[h] * PollInterval
        /\ (pc[h] = "sleep" /\ polls[h] < MaxPolls) =>
              slept[h] = (polls[h] - 1) * PollInterval

\* the second status request of a job was answered with SUCCESS, after one
\* sleep
C6_Witness ==
    \E h \in Handlers :
        /\ pc[h] = "final_post"
        /\ url[h] = "u2"
        /\ polls[h] = 1
        /\ slept[h] = PollInterval

NoError == \A g \in Handlers : result[g] # "error"

\* the texts of those of the first n deliveries that reached the session of key
\* k and were no triggers, each behind a blank, in the order of arrival
RECURSIVE ContinueRequestOf(_, _)
ContinueRequestOf(k, n) ==
    IF n = 0 THEN <<>>
    ELSE ContinueRequestOf(k, n - 1) \o
         (IF key[n] = k /\ ev[n].text # <<>> /\ ~IsTrigger(ev[n].text)
          THEN SPACE \o ev[n].text ELSE <<>>)

RECURSIVE ContinueBodyOf(_, _)
ContinueBodyOf(k, n) ==
    IF n = 0 THEN <<>>
    ELSE ContinueBodyOf(k, n - 1) \o
         (IF key[n] = k /\ ~IsTrigger(ev[n].text) THEN Lines(extracted[n]) ELSE <<>>)

\* C7: when a key receives events that are no triggers and then a trigger, what
\* is submitted for generation is the request and the body accumulated from the
\* former; the trigger word is no part of it.  (Stated for the runs in which no
\* handler raised.)
C7_SubmittedIsAccumulated ==
    \A h \in Handlers :
        (/\ submitted[h].called
         /\ NoError
         /\ \E g \in 1..(h - 1) : key[g] = key[h] /\ ~IsTrigger(ev[g].text)) =>
            /\ submitted[h].pedido = ContinueRequestOf(key[h], h - 1)
            /\ submitted[h].texto = ContinueBodyOf(key[h], h - 1)

Terminal(h) == {i \in DOMAIN sent[h] : sent[h][i].kind = "result"}

\* C8: each trigger leads to exactly one terminal outcome among success,
\* generation failure, submission failure and timeout, and the outcome is
\* reported to the conversation exactly once.  A handler that a failed
\* chat.postMessage has ended is not a case of this claim and is left out.
C8_ReportedExactlyOnce ==
    \A h \in Handlers :
        (pc[h] = "working_post")
            ~> (pc[h] = "failed" \/ Cardinality(Terminal(h)) = 1)

\* C9: an event without an identifier is never taken for a duplicate.  (Stated
\* for the runs in which no handler raised.)
C9_NoIdentifierNeverDuplicate ==
    \A h \in Handlers : (result[h] = "dup" /\ NoError) => cid[h] # None

\* C10: an I/O failure of a status request does not end the job: no handler
\* leaves the polling because a status request raised.
C10_PollErrorSwallowed ==
    \A h \in Handlers : outcome[h] # "poll_error"

\* handler h is waiting for download_slack or for extract
Fetching(h) == pc[h] \in {"download", "extract"}

\* the steps after the collection do not raise by themselves for handler h
Postable(h) == AfterCollect(ev[h], key[h], asked_flag) # "failed"

\* C11: a download or an extraction that fails does not end the handler: the
\* handler goes on, with nothing extracted, to the classification of its text
\* and to the prompt or the generation.
C11_ExtractionFailureAbsorbed ==
    [][\A h \in Handlers : (Fetching(h) /\ Postable(h)) => pc'[h] # "failed"]_vars

\* the handlers that hold a reference to session dict o
Appenders(o) == {h \in Handlers : sess[h] = o}

\* the orders in which the handlers of a set may have appended
Orders(S) ==
    {f \in [1..Cardinality(S) -> S] : \A i, j \in 1..Cardinality(S) : f[i] = f[j] => i = j}

\* the texts of the first n handlers of f, each behind a blank
RECURSIVE RequestIn(_, _)
RequestIn(f, n) ==
    IF n = 0 THEN <<>>
    ELSE RequestIn(f, n - 1) \o
         (IF ev[f[n]].text # <<>> THEN SPACE \o ev[f[n]].text ELSE <<>>)

\* the texts extract returned to the first n handlers of f, each behind a
\* newline
RECURSIVE BodyIn(_, _)
BodyIn(f, n) ==
    IF n = 0 THEN <<>> ELSE BodyIn(f, n - 1) \o Lines(extracted[f[n]])

\* C12: no append to a session is lost, however the handlers of its key
\* interleave: once every handler of a session dict is past its appends, pedido
\* holds the text of each of them and texto holds every text extract returned
\* to them, in some order of the handlers.  (Stated for the runs in which no
\* handler raised.)
C12_NoLostUpdate ==
    \A o \in Handlers :
        (NoError /\ Appenders(o) # {} /\ \A h \in Appenders(o) : ~Fetching(h)) =>
            /\ \E f \in Orders(Appenders(o)) :
                   heap[o].pedido = RequestIn(f, Cardinality(Appenders(o)))
            /\ \E f \in Orders(Appenders(o)) :
                   heap[o].texto = BodyIn(f, Cardinality(Appenders(o)))

\* handler h classifies the text of its event in this step (lines 139-153)
Classifies(h) ==
    /\ pc[h] \in {"idle", "download", "extract"}
    /\ \/ pc'[h] \in {"prompt_post", "working_post"}
       \/ pc'[h] = "done" /\ result'[h] = "silent"

\* s ends with t
EndsWith(s, t) ==
    Len(t) <= Len(s) /\ SubSeq(s, Len(s) - Len(t) + 1, Len(s)) = t

\* the session dict handler h works on holds the text of its event, behind a
\* blank
TextAppended(h) ==
    \E i \in 1..Len(heap[sess[h]].pedido) :
        EndsWith(SubSeq(heap[sess[h]].pedido, 1, i), SPACE \o ev[h].text)

\* C13: the side effects of one handler are ordered.  By the step in which it
\* classifies its text, the text is in pedido and what extract returned to it
\* in that step is at the end of texto; and a session leaves sessions only in
\* the step of a handler of its key that has just sent its result message, as
\* the last of its messages.
C13_SideEffectsOrdered ==
    [][/\ \A h \in Handlers :
              Classifies(h) =>
                 /\ ev'[h].text # <<>> => TextAppended(h)'
                 /\ pc[h] = "idle" => ev'[h].files = <<>>
                 /\ extracted'[h] # extracted[h] =>
                       \E kind \in FileKinds :
                          /\ extracted'[h] =
                                Append(extracted[h], extract(kind, ev[h].files[1]))
                          /\ EndsWith(heap'[sess[h]].texto,
                                      NEWLINE \o extract(kind, ev[h].files[1]))
       /\ \A k \in Keys :
              (sessions[k] # NoSession /\ sessions'[k] = NoSession) =>
                 \E h \in Handlers :
                    /\ key[h] = k
                    /\ pc[h] = "final_post"
                    /\ sent'[h] = Append(sent[h], Message("result", k, url[h]))
                    /\ Cardinality({i \in DOMAIN sent[h] : sent[h][i].kind = "result"}) = 0
      ]_vars

\* a trigger with a file was handled to its end: its file's text went into
\* texto, the job was submitted with it, the result was sent and the session
\* is gone
C13_Witness ==
    \E h \in Handlers :
        /\ result[h] = "dispatched"
        /\ extracted[h] = << <<"x">> >>
        /\ submitted[h].texto = <<"\n", "x">>
        /\ Cardinality(Terminal(h)) = 1
        /\ sessions[key[h]] = NoSession

\* C14: an event that carries bot_id is ignored before any state is touched:
\* its handler returns at once and leaves dedup, sessions, the session dicts
\* and asked_flag as they are, and sends no message.
C14_BotEventIgnored ==
    [][\A h \in Handlers :
          (Handles(h) /\ ev'[h].bot) =>
             /\ pc'[h] = "done"
             /\ result'[h] = "bot"
             /\ UNCHANGED << dedup, sessions, heap, asked_flag, sent >>]_vars

\* the bot's own message was ignored while the handler of a user's message
\* was waiting for its prompt to be posted, and its ts is not in dedup
C14_Witness ==
    \E g, h \in Handlers :
        /\ result[h] = "bot"
        /\ pc[g] = "prompt_post"
        /\ sessions[key[g]] = g
        /\ dedup[ev[h].ts] = NoTime

\* the handlers whose generation job for session dict o is in flight: the job
\* was accepted by the service and its status is being polled
JobsInFlight(o) == {h \in Handlers : sess[h] = o /\ Polling(h)}

\* C15: two triggers with different identifiers for one key, the second
\* delivered before the first has cleared the session, start one job and not
\* two: of the handlers of one session dict at most one has a job in flight.
C15_OneJobPerSession ==
    \A o \in Handlers :
        \A g, h \in JobsInFlight(o) :
            (cid[g] # None /\ cid[h] # None /\ cid[g] # cid[h]) => g = h

\* handler h found no session for its key: the dict it works on is the one its
\* own setdefault created
CreatedSession(h) == sess[h] = h

\* C16: a trigger for a key that has no session is a no-op: nothing is
\* submitted for generation by a handler that found no session for its key.
C16_TriggerWithoutSessionNoOp ==
    \A h \in Handlers : (submitted[h].called /\ NoError) => ~CreatedSession(h)

\* C17: after every call of is_duplicate, at time now, every identifier left
\* in dedup was first seen not more than 300 s before now; an identifier that
\* is found keeps its first-seen time, and one first seen more than 300 s ago
\* is recorded anew and its delivery processed.
C17_DedupWithinWindow ==
    [][\A h \in Handlers :
          (Handles(h) /\ ~ev'[h].bot) =>
             /\ \A c \in Cids :
                   /\ dedup'[c] # NoTime => now - dedup'[c] <= DedupWindow
                   /\ (c # cid'[h] /\ dedup'[c] # NoTime) => dedup'[c] = dedup[c]
             /\ IF dedup[cid'[h]] # NoTime /\ now - dedup[cid'[h]] <= DedupWindow
                THEN result'[h] = "dup" /\ dedup'[cid'[h]] = dedup[cid'[h]]
                ELSE result'[h] # "dup" /\ dedup'[cid'[h]] = now]_vars

\* an identifier first seen at 0 was delivered again at 301 and recorded anew,
\* its delivery processed
C17_Witness ==
    \E g, h \in Handlers :
        /\ g # h
        /\ cid[g] = cid[h]
        /\ at[g] = 0
        /\ at[h] = DedupWindow + 1
        /\ dedup[cid[h]] = DedupWindow + 1
        /\ result[h] = "prompted"

\* C18: the session and the flag of a key are removed together, so that under
\* any interleaving of the handlers of a key asked_flag holds the key only
\* while sessions holds it: no flag outlives the session it was set for.
\* (Stated for the runs in which no handler raised.)
C18_FlagOnlyWithSession ==
    \A k \in Keys : (asked_flag[k] /\ NoError) => sessions[k] # NoSession

\* handler h has ended by an exception that only a chat.postMessage can have
\* raised: its event has a key and no file, and nothing else of its path raises
SendFailed(h) ==
    /\ pc[h] = "failed"
    /\ key[h] # None
    /\ ev[h].files = <<>>
    /\ IsTrigger(ev[h].text) \/ PyOr(ev[h].thread_ts, ev[h].ts) # None

\* C19: a chat.postMessage that fails does not stop the handler: after a
\* trigger whose progress or result message failed the session of the key is
\* cleared all the same, and an event whose prompt failed is handled to its
\* end.
C19_SendFailureDoesNotBlock ==
    \A h \in Handlers :
        SendFailed(h) =>
            /\ IsTrigger(ev[h].text)
            /\ sessions[key[h]] = NoSession

\* C20: for an event with several file references extract is called for each
\* of them and the texts are appended in the order of the references: a
\* handler that is past its files and has extracted any of them has extracted
\* them all, in order.
C20_EveryFileExtracted ==
    \A h \in Handlers :
        (~Fetching(h) /\ pc[h] # "failed" /\ extracted[h] # <<>>) =>
            /\ Len(extracted[h]) = Len(ev[h].files)
            /\ \A i \in 1..Len(extracted[h]) :
                  extracted[h][i] = Truncate(Content(ev[h].files[i]), ExtractLimit)
====
